---- MODULE Spec2Model ----
(***************************************************************************)
(* Map Displayer: the display surface (MapWindow) with its animation queue *)
(* and the linear tween (MDTween) that drives each queued transition.      *)
(*                                                                         *)
(* Numbers: the tween values are Python numbers and getCurrentValue uses   *)
(* true division; the model keeps them as exact fractions [num, den].      *)
(***************************************************************************)
EXTENDS Integers, Sequences, FiniteSets, TLC

VARIABLES
    animationList,  \* MapWindow.animationList: queue of (bkg, img, tween)
    finalImage,     \* MapWindow.finalImage
    painted,        \* what the last paintEvent drew over the background
    lastOp,         \* history: the operation that produced this state
    requested,      \* history: image of the most recent enqueue call
    headTicks,      \* history: timer ticks the current head has received
    userActive,     \* environment: further enqueue calls may still come
    tw,             \* a free-standing MDTween
    elapsed,        \* history: sum of the deltas passed to tw.update
    lastDelta,      \* history: the delta of the last tw.update
    value,          \* the value returned by the last tw.update
    session,        \* MDMain.session
    editorScene,    \* MDSceneEditor.currentScene
    editorIdx,      \* position of editorScene in session.scenes, 0 if none
    file,           \* the session file on disk, as parsed by json.loads
    images,         \* MDImageObjectList.images: the uploaded image objects
    nextId,         \* identity of the next object constructed
    obj,            \* a free-standing scene object and the last call on it
    rendered        \* history: result of generateSceneImage since the last edit

vars == <<animationList, finalImage, painted, lastOp, requested, headTicks,
          userActive, tw, elapsed, lastDelta, value,
          session, editorScene, editorIdx, file, images, nextId,
          obj, rendered>>

surfaceVars == <<animationList, finalImage, painted, lastOp, requested,
                 headTicks, userActive>>
tweenVars == <<tw, elapsed, lastDelta, value>>
dataVars == <<session, editorScene, editorIdx, file, images, nextId>>
objVars == <<obj>>
renderVars == <<rendered>>

----------------------------------------------------------------------------
(* Bounds *)

MaxQueue == 3          \* enqueue calls are modelled while the queue fits
MaxElapsed == 1200     \* |sum of deltas| explored for a free-standing tween
MaxObjects == 2        \* objects added to one scene / images uploaded
MaxScenes == 2         \* scenes of a session built in the editor
MaxIds == 8            \* objects constructed in one run
MaxCell == 2           \* grid cells per axis whose pixels are compared
MaxDrawn == 3          \* objects of a scene that is rendered

None == "None"
Images == {"A", "B"}                 \* pixmaps of generateSceneImage
TweenValues == {0, 1, 2}             \* start / end values explored
TweenTimes == {0, 500, 1000}         \* durations explored
Deltas == {25, 500, 0 - 25}          \* deltas explored

intervalTime == 25
PPI == 72

----------------------------------------------------------------------------
(* Exact fractions *)

Rat(n, d) == [err |-> FALSE, num |-> n, den |-> d]
ZeroDivisionError == [err |-> TRUE, num |-> 0, den |-> 1]
One == Rat(1, 1)

\* a = b as numbers (neither is an error)
RatEq(a, b) == /\ ~a.err
               /\ ~b.err
               /\ a.num * b.den = b.num * a.den

\* a <= b as numbers (neither is an error, denominators are positive)
RatLeq(a, b) == /\ ~a.err
                /\ ~b.err
                /\ a.num * b.den <= b.num * a.den

----------------------------------------------------------------------------
(* MDTween *)

MDTween(startValue, endValue, time) ==
    [startValue |-> startValue, endValue |-> endValue,
     valueDelta |-> endValue - startValue,
     time |-> time, timeRemaining |-> time]

getCurrentValue(tween) ==
    IF tween.time = 0
    THEN ZeroDivisionError
    ELSE Rat(tween.startValue * tween.time
               + tween.valueDelta * (tween.time - tween.timeRemaining),
             tween.time)

\* variant: the remaining time is clamped at zero
update_Clamped(tween, delta) ==
    [tween EXCEPT !.timeRemaining = IF @ - delta < 0 THEN 0 ELSE @ - delta]

update(tween, delta) == [tween EXCEPT !.timeRemaining = @ - delta]

\* variant: strict comparison
completed_Strict(tween) == tween.timeRemaining < 0

completed(tween) == tween.timeRemaining <= 0

----------------------------------------------------------------------------
(* Scene data (MDSceneData.py)                                             *)
(*                                                                         *)
(* A Python call either returns a value, Ok(v), or raises, Raise(e).       *)

Ok(v) == [ok |-> TRUE, val |-> v]
Raise(e) == [ok |-> FALSE, val |-> e]

\* the results of a list comprehension / append loop: the list of values,
\* or the first exception raised
Collect(rs) ==
    IF \A i \in 1..Len(rs) : rs[i].ok
    THEN Ok([i \in 1..Len(rs) |-> rs[i].val])
    ELSE Raise(rs[CHOOSE i \in 1..Len(rs) :
                    /\ ~rs[i].ok
                    /\ \A j \in 1..(i - 1) : rs[j].ok].val)

\* js[k] for every k of ks succeeds
HasKeys(js, ks) == ks \subseteq DOMAIN js

\* image files on disk and their native pixel sizes; any other path is
\* missing or corrupt
ImageFiles == {"a.png", "b.png"}
NativeWidth(path) == IF path = "b.png" THEN 144 ELSE 72
NativeHeight(path) == 72

\* QPixmap(path): a null pixmap of size 0 x 0 when the file cannot be loaded
QPixmap(path) ==
    IF path \in ImageFiles
    THEN [attr |-> TRUE, null |-> FALSE, path |-> path,
          width |-> NativeWidth(path), height |-> NativeHeight(path)]
    ELSE [attr |-> TRUE, null |-> TRUE, path |-> path,
          width |-> 0, height |-> 0]

\* the attribute self.image was never assigned
NoImageAttr ==
    [attr |-> FALSE, null |-> TRUE, path |-> "", width |-> 0, height |-> 0]

\* SceneImage.__init__(name, filepath, x, y, height, width, hidden)
SceneImage(name, filepath, x, y, height, width, hidden) ==
    [type |-> "image", name |-> name, x |-> x, y |-> y, hidden |-> hidden,
     filePath |-> filepath,
     image |-> IF filepath # "" THEN QPixmap(filepath) ELSE NoImageAttr,
     height |-> IF filepath # "" /\ height = 0 - 1
                THEN QPixmap(filepath).height ELSE height,
     width |-> IF filepath # "" /\ width = 0 - 1
               THEN QPixmap(filepath).width ELSE width]

\* SceneDarkness.__init__(name, x, y, width, height, hidden)
SceneDarkness(name, x, y, width, height, hidden) ==
    [type |-> "darkness", name |-> name, x |-> x, y |-> y,
     width |-> width, height |-> height, hidden |-> hidden]

\* SceneLightCircle.__init__(name, x, y, brightRadius, dimRadius, hidden)
SceneLightCircle(name, x, y, brightRadius, dimRadius, hidden) ==
    [type |-> "light", name |-> name, x |-> x, y |-> y,
     width |-> (brightRadius + dimRadius) * 2,
     height |-> (brightRadius + dimRadius) * 2,
     hidden |-> hidden,
     brightRadius |-> brightRadius, dimRadius |-> dimRadius]

\* getJSON of the three object classes
SceneObjectGetJSON(so) ==
    IF so.type = "image"
    THEN [type |-> "image", name |-> so.name, x |-> so.x, y |-> so.y,
          width |-> so.width, height |-> so.height, hidden |-> so.hidden,
          filepath |-> so.filePath]
    ELSE IF so.type = "darkness"
    THEN [type |-> "darkness", name |-> so.name, x |-> so.x, y |-> so.y,
          width |-> so.width, height |-> so.height, hidden |-> so.hidden]
    ELSE [type |-> "light", name |-> so.name, x |-> so.x, y |-> so.y,
          dimRadius |-> so.dimRadius, brightRadius |-> so.brightRadius,
          hidden |-> so.hidden]

\* createFromJSON of the class that typeDict gives for the key
SceneObjectCreateFromJSON(key, js) ==
    IF key = "images"
    THEN IF HasKeys(js, {"name", "filepath", "x", "y", "height", "width"})
         THEN Ok(SceneImage(js.name, js.filepath, js.x, js.y,
                            js.height, js.width, FALSE))
         ELSE Raise("KeyError")
    ELSE IF key = "darkness"
    THEN IF HasKeys(js, {"name", "x", "y", "width", "height"})
         THEN Ok(SceneDarkness(js.name, js.x, js.y, js.width, js.height,
                               FALSE))
         ELSE Raise("KeyError")
    ELSE IF HasKeys(js, {"name", "x", "y", "brightRadius", "dimRadius"})
         THEN Ok(SceneLightCircle(js.name, js.x, js.y,
                                  js.brightRadius, js.dimRadius, FALSE))
         ELSE Raise("KeyError")

TypeKeys == {"images", "darkness", "light"}

\* MDScene.__init__(name, so)
MDScene(name, so) == [name |-> name, sceneObjects |-> so]

NoSceneObjects == [k \in TypeKeys |-> <<>>]

\* MDScene.getJSON
SceneGetJSON(scene) ==
    [name |-> scene.name,
     sceneObjects |->
        [k \in DOMAIN scene.sceneObjects |->
            [i \in 1..Len(scene.sceneObjects[k]) |->
                SceneObjectGetJSON(scene.sceneObjects[k][i])]]]

\* MDScene.createFromJSON
SceneCreateFromJSON(js) ==
    IF ~HasKeys(js, {"sceneObjects"})
    THEN Raise("KeyError")
    ELSE LET soJS == js.sceneObjects
             keys == DOMAIN soJS \cap TypeKeys
             lists == [k \in keys |->
                         Collect([i \in 1..Len(soJS[k]) |->
                                    SceneObjectCreateFromJSON(k, soJS[k][i])])]
         IN  IF \E k \in keys : ~lists[k].ok
             THEN Raise("KeyError")
             ELSE IF ~HasKeys(js, {"name"})
             THEN Raise("KeyError")
             ELSE Ok(MDScene(js.name, [k \in keys |-> lists[k].val]))

\* MDSession.__init__(name, scenes)
MDSession(name, scenes) == [name |-> name, scenes |-> scenes]

\* MDSession() as MDMain.__init__ builds it
NewSession == MDSession("Untitled", <<MDScene("My Scene", NoSceneObjects)>>)

\* MDSession.getJSON
SessionGetJSON(s) ==
    [name |-> s.name,
     scenes |-> [i \in 1..Len(s.scenes) |-> SceneGetJSON(s.scenes[i])]]

\* MDSession.createFromJSON
SessionCreateFromJSON(js) ==
    IF ~HasKeys(js, {"scenes"})
    THEN Raise("KeyError")
    ELSE LET scenes == Collect([i \in 1..Len(js.scenes) |->
                                  SceneCreateFromJSON(js.scenes[i])])
         IN  IF ~scenes.ok
             THEN scenes
             ELSE IF ~HasKeys(js, {"name"})
             THEN Raise("KeyError")
             ELSE Ok(MDSession(js.name, scenes.val))

\* the text of a file: unparsable, or the JSON value it parses to
Unparsable == [parsed |-> FALSE, js |-> [name |-> ""]]
Parsed(js) == [parsed |-> TRUE, js |-> js]
NoFile == [parsed |-> FALSE, js |-> [name |-> "no file"]]

\* MDMain.loadSessionFromFile: returns None for text json.loads rejects
loadSessionFromFile(content) ==
    IF ~content.parsed
    THEN [ok |-> TRUE, none |-> TRUE, val |-> None]
    ELSE LET r == SessionCreateFromJSON(content.js)
         IN  [ok |-> r.ok, none |-> FALSE, val |-> r.val]

----------------------------------------------------------------------------
(* Object identity: every constructed object carries the identity `id`;    *)
(* two references are the same Python object iff their ids are equal.      *)

New(so, id) ==
    [f \in DOMAIN so \cup {"id"} |-> IF f = "id" THEN id ELSE so[f]]

KeyOrder == <<"images", "darkness", "light">>

\* number of objects of a scene held under the first n keys of KeyOrder
RECURSIVE CountKeys(_, _)
CountKeys(scene, n) ==
    IF n = 0 THEN 0
    ELSE CountKeys(scene, n - 1)
         + (IF KeyOrder[n] \in DOMAIN scene.sceneObjects
            THEN Len(scene.sceneObjects[KeyOrder[n]]) ELSE 0)

\* number of objects of the first n scenes
RECURSIVE CountScenes(_, _)
CountScenes(scenes, n) ==
    IF n = 0 THEN 0
    ELSE CountScenes(scenes, n - 1) + CountKeys(scenes[n], 3)

KeyIndex(k) == CHOOSE n \in 1..3 : KeyOrder[n] = k

\* the objects createFromJSON constructed get the identities base, base+1, ...
AssignIds(s, base) ==
    [s EXCEPT !.scenes =
        [i \in 1..Len(s.scenes) |->
            [s.scenes[i] EXCEPT !.sceneObjects =
                [k \in DOMAIN s.scenes[i].sceneObjects |->
                    [p \in 1..Len(s.scenes[i].sceneObjects[k]) |->
                        New(s.scenes[i].sceneObjects[k][p],
                            base + CountScenes(s.scenes, i - 1)
                                 + CountKeys(s.scenes[i], KeyIndex(k) - 1)
                                 + (p - 1))]]]]]

\* a list, a scene and a session after a method call left the object of
\* identity so.id in the state so: every reference to it sees that state
MutateList(list, so) ==
    [p \in 1..Len(list) |-> IF list[p].id = so.id THEN so ELSE list[p]]

MutateScene(scene, so) ==
    [scene EXCEPT !.sceneObjects =
        [k \in DOMAIN scene.sceneObjects |->
            MutateList(scene.sceneObjects[k], so)]]

MutateSession(s, so) ==
    [s EXCEPT !.scenes =
        [i \in 1..Len(s.scenes) |-> MutateScene(s.scenes[i], so)]]

----------------------------------------------------------------------------
(* MDSceneObject and SceneLightCircle mutators *)

setPos(so, x, y) == [so EXCEPT !.x = x, !.y = y]
setHeight(so, height) == [so EXCEPT !.height = height]
setWidth(so, width) == [so EXCEPT !.width = width]
toggleHidden(so) == [so EXCEPT !.hidden = ~so.hidden]
setHidden(so, hidden) == [so EXCEPT !.hidden = hidden]
setName(so, name) == [so EXCEPT !.name = name]

updateRadiusHW(so) ==
    [so EXCEPT !.height = (so.brightRadius + so.dimRadius) * 2,
               !.width = (so.brightRadius + so.dimRadius) * 2]
setBrightRadius(so, br) == updateRadiusHW([so EXCEPT !.brightRadius = br])
setDimRadius(so, dr) == updateRadiusHW([so EXCEPT !.dimRadius = dr])

\* MDScene.addSceneObject: the list is chosen by the object's class
TypeKey(so) ==
    IF so.type = "image" THEN "images"
    ELSE IF so.type = "darkness" THEN "darkness" ELSE "light"

addSceneObject(scene, so) ==
    IF TypeKey(so) \in DOMAIN scene.sceneObjects
    THEN Ok([scene EXCEPT !.sceneObjects[TypeKey(so)] = Append(@, so)])
    ELSE Raise("KeyError")

\* no generateSceneImage call since the last edit
NoRender == [ok |-> FALSE, val |-> "no render", calls |-> 0]

\* the result r of a generateSceneImage call that follows the calls counted
\* in prev; calls since the last edit are counted as 0, 1 or 2 (several)
Render(r, prev) ==
    [ok |-> r.ok, val |-> r.val, calls |-> IF prev.calls = 0 THEN 1 ELSE 2]

Result(r) == [ok |-> r.ok, val |-> r.val]

\* a free-standing object: so holds its attributes, tupled names the
\* attributes whose value is the 1-tuple (so[f],) instead of the number
\* so[f], op is the last method called on it with the arguments args, and
\* seen lists what the slot connected to objectUpdated read from the object
\* at each emission of that call
NewObject(so) ==
    [so |-> so, tupled |-> {}, op |-> "init", args |-> <<>>, seen |-> <<>>]

ObjectInit == obj = NewObject(SceneLightCircle("light", 0, 0, 6, 6, FALSE))

DataInit ==
    /\ rendered = NoRender
    /\ session = NewSession
    /\ editorScene = NewSession.scenes[1]
    /\ editorIdx = 1
    /\ file = NoFile
    /\ images = <<>>
    /\ nextId = 1

----------------------------------------------------------------------------
(* MapWindow *)

Animation(bkg, img, tween) == [bkg |-> bkg, img |-> img, tween |-> tween]

\* variant: nothing is drawn when the queue is empty
paintEvent_HeadOnly(al, fi) ==
    IF Len(al) > 0
    THEN [bkg |-> al[1].bkg,
          img |-> al[1].img,
          opacity |-> IF al[1].img # None
                      THEN getCurrentValue(al[1].tween)
                      ELSE One]
    ELSE [bkg |-> None, img |-> None, opacity |-> One]

\* what paintEvent draws over the background pixmap
paintEvent(al, fi) ==
    IF Len(al) > 0
    THEN [bkg |-> al[1].bkg,
          img |-> al[1].img,
          opacity |-> IF al[1].img # None
                      THEN getCurrentValue(al[1].tween)
                      ELSE One]
    ELSE [bkg |-> None, img |-> fi, opacity |-> One]

Op(name, arg) == [op |-> name, arg |-> arg]

\* variant: hideScene replaces the queue by its fade-out
hideScene_Replaces ==
    /\ userActive
    /\ Len(animationList) + 1 <= MaxQueue
    /\ animationList' = <<Animation(None, finalImage, MDTween(1, 0, 1000))>>
    /\ finalImage' = None
    /\ requested' = None
    /\ headTicks' = 0
    /\ lastOp' = Op("hideScene", None)
    /\ UNCHANGED <<painted, userActive, tweenVars, dataVars,
                 objVars, renderVars>>

\* variant: hideScene leaves finalImage as it was
hideScene_KeepsFinalImage ==
    /\ userActive
    /\ Len(animationList) + 1 <= MaxQueue
    /\ animationList' =
           Append(animationList, Animation(None, finalImage, MDTween(1, 0, 1000)))
    /\ finalImage' = finalImage
    /\ requested' = None
    /\ headTicks' = IF animationList = <<>> THEN 0 ELSE headTicks
    /\ lastOp' = Op("hideScene", None)
    /\ UNCHANGED <<painted, userActive, tweenVars, dataVars,
                 objVars, renderVars>>

\* variant: hideScene does nothing when nothing is shown
hideScene_SkipWhenHidden ==
    /\ userActive
    /\ Len(animationList) + 1 <= MaxQueue
    /\ IF finalImage # None
       THEN animationList' =
                Append(animationList,
                       Animation(None, finalImage, MDTween(1, 0, 1000)))
       ELSE animationList' = animationList
    /\ finalImage' = None
    /\ requested' = None
    /\ headTicks' = IF animationList = <<>> THEN 0 ELSE headTicks
    /\ lastOp' = Op("hideScene", None)
    /\ UNCHANGED <<painted, userActive, tweenVars, dataVars,
                 objVars, renderVars>>

hideScene ==
    /\ userActive
    /\ Len(animationList) + 1 <= MaxQueue
    /\ animationList' =
           Append(animationList, Animation(None, finalImage, MDTween(1, 0, 1000)))
    /\ finalImage' = None
    /\ requested' = None
    /\ headTicks' = IF animationList = <<>> THEN 0 ELSE headTicks
    /\ lastOp' = Op("hideScene", None)
    /\ UNCHANGED <<painted, userActive, tweenVars, dataVars,
                 objVars, renderVars>>

\* variant: finalImage is assigned before the transition is built
updateScene_AssignFirst(pm) ==
    /\ userActive
    /\ Len(animationList) + 1 <= MaxQueue
    /\ IF pm # None
       THEN /\ animationList' =
                   Append(animationList, Animation(pm, pm, MDTween(0, 1, 1000)))
            /\ finalImage' = pm
       ELSE UNCHANGED <<animationList, finalImage>>
    /\ requested' = pm
    /\ headTicks' = IF animationList = <<>> THEN 0 ELSE headTicks
    /\ lastOp' = Op("updateScene", pm)
    /\ UNCHANGED <<painted, userActive, tweenVars, dataVars,
                 objVars, renderVars>>

updateScene(pm) ==
    /\ userActive
    /\ Len(animationList) + 1 <= MaxQueue
    /\ IF pm # None
       THEN /\ animationList' =
                   Append(animationList,
                          Animation(finalImage, pm, MDTween(0, 1, 1000)))
            /\ finalImage' = pm
       ELSE UNCHANGED <<animationList, finalImage>>
    /\ requested' = pm
    /\ headTicks' = IF animationList = <<>> THEN 0 ELSE headTicks
    /\ lastOp' = Op("updateScene", pm)
    /\ UNCHANGED <<painted, userActive, tweenVars, dataVars,
                 objVars, renderVars>>

\* variant: the fade-in is appended before the fade-out
transitionScene_FadeInFirst(pm) ==
    /\ userActive
    /\ Len(animationList) + 2 <= MaxQueue
    /\ IF pm # None
       THEN /\ animationList' =
                   Append(Append(animationList,
                                 Animation(None, pm, MDTween(0, 1, 1000))),
                          Animation(None, finalImage, MDTween(1, 0, 1000)))
            /\ finalImage' = pm
       ELSE UNCHANGED <<animationList, finalImage>>
    /\ requested' = pm
    /\ headTicks' = IF animationList = <<>> THEN 0 ELSE headTicks
    /\ lastOp' = Op("transitionScene", pm)
    /\ UNCHANGED <<painted, userActive, tweenVars, dataVars,
                 objVars, renderVars>>

transitionScene(pm) ==
    /\ userActive
    /\ Len(animationList) + 2 <= MaxQueue
    /\ IF pm # None
       THEN /\ animationList' =
                   Append(Append(animationList,
                                 Animation(None, finalImage, MDTween(1, 0, 1000))),
                          Animation(None, pm, MDTween(0, 1, 1000)))
            /\ finalImage' = pm
       ELSE UNCHANGED <<animationList, finalImage>>
    /\ requested' = pm
    /\ headTicks' = IF animationList = <<>> THEN 0 ELSE headTicks
    /\ lastOp' = Op("transitionScene", pm)
    /\ UNCHANGED <<painted, userActive, tweenVars, dataVars,
                 objVars, renderVars>>

\* variant: the head is advanced first and dequeued in the same tick
updateAnimation_AdvanceFirst ==
    /\ IF Len(animationList) > 0
       THEN /\ IF completed(update(animationList[1].tween, intervalTime))
               THEN /\ animationList' = Tail(animationList)
                    /\ headTicks' = 0
               ELSE /\ animationList' =
                          [animationList EXCEPT
                             ![1].tween = update(@, intervalTime)]
                    /\ headTicks' = headTicks + 1
            /\ painted' = paintEvent(animationList', finalImage)
       ELSE UNCHANGED <<animationList, headTicks, painted>>
    /\ lastOp' = Op("updateAnimation", None)
    /\ UNCHANGED <<finalImage, requested, userActive, tweenVars, dataVars,
                 objVars, renderVars>>

\* variant: a tick advances every tween of the queue
updateAnimation_AdvanceAll ==
    /\ IF Len(animationList) > 0
       THEN /\ IF completed(animationList[1].tween)
               THEN /\ animationList' = Tail(animationList)
                    /\ headTicks' = 0
               ELSE /\ animationList' =
                          [i \in 1..Len(animationList) |->
                             [animationList[i] EXCEPT
                                !.tween = update(@, intervalTime)]]
                    /\ headTicks' = headTicks + 1
            /\ painted' = paintEvent(animationList', finalImage)
       ELSE UNCHANGED <<animationList, headTicks, painted>>
    /\ lastOp' = Op("updateAnimation", None)
    /\ UNCHANGED <<finalImage, requested, userActive, tweenVars, dataVars,
                 objVars, renderVars>>

\* the QTimer slot; repaint() runs paintEvent before the slot returns
updateAnimation ==
    /\ IF Len(animationList) > 0
       THEN /\ IF completed(animationList[1].tween)
               THEN /\ animationList' = Tail(animationList)
                    /\ headTicks' = 0
               ELSE /\ animationList' =
                          [animationList EXCEPT
                             ![1].tween = update(@, intervalTime)]
                    /\ headTicks' = headTicks + 1
            /\ painted' = paintEvent(animationList', finalImage)
       ELSE UNCHANGED <<animationList, headTicks, painted>>
    /\ lastOp' = Op("updateAnimation", None)
    /\ UNCHANGED <<finalImage, requested, userActive, tweenVars, dataVars,
                 objVars, renderVars>>

\* a paint event delivered by the window system (show, expose)
exposePaint ==
    /\ painted' = paintEvent(animationList, finalImage)
    /\ lastOp' = Op("paintEvent", None)
    /\ UNCHANGED <<animationList, finalImage, requested, headTicks,
                   userActive, tweenVars, dataVars,
                 objVars, renderVars>>

Init ==
    /\ animationList = <<>>
    /\ finalImage = None
    /\ painted = paintEvent(<<>>, None)
    /\ lastOp = Op("init", None)
    /\ requested = None
    /\ headTicks = 0
    /\ userActive = TRUE
    /\ tw = MDTween(0, 1, 1000)
    /\ elapsed = 0
    /\ lastDelta = 0
    /\ value = getCurrentValue(MDTween(0, 1, 1000))
    /\ DataInit
    /\ ObjectInit

Next ==
    \/ hideScene
    \/ \E pm \in Images : updateScene(pm)
    \/ \E pm \in Images : transitionScene(pm)
    \/ updateAnimation
    \/ exposePaint

Spec == Init /\ [][Next]_vars

----------------------------------------------------------------------------
(* The display surface under a timer that keeps firing (QTimer started in  *)
(* MapWindow.__init__) and a user who at some point stops pressing the     *)
(* display buttons.                                                        *)

userStops ==
    /\ userActive
    /\ userActive' = FALSE
    /\ lastOp' = Op("userStops", None)
    /\ UNCHANGED <<animationList, finalImage, painted, requested, headTicks,
                   tweenVars, dataVars,
                 objVars, renderVars>>

NextLive == Next \/ userStops

LiveSpec == Init /\ [][NextLive]_vars /\ WF_vars(updateAnimation)

----------------------------------------------------------------------------
(* A free-standing MDTween driven by update(delta) calls *)

tweenUpdate(delta) ==
    /\ elapsed + delta <= MaxElapsed
    /\ elapsed + delta >= 0 - MaxElapsed
    /\ tw' = update(tw, delta)
    /\ value' = getCurrentValue(tw')
    /\ elapsed' = elapsed + delta
    /\ lastDelta' = delta
    /\ UNCHANGED <<surfaceVars, dataVars, objVars, renderVars>>

InitTween ==
    /\ animationList = <<>>
    /\ finalImage = None
    /\ painted = paintEvent(<<>>, None)
    /\ lastOp = Op("init", None)
    /\ requested = None
    /\ headTicks = 0
    /\ userActive = TRUE
    /\ \E s \in TweenValues, e \in TweenValues, t \in TweenTimes :
           /\ tw = MDTween(s, e, t)
           /\ value = getCurrentValue(MDTween(s, e, t))
    /\ elapsed = 0
    /\ lastDelta = 0
    /\ DataInit
    /\ ObjectInit

NextTween == \E delta \in Deltas : tweenUpdate(delta)

SpecTween == InitTween /\ [][NextTween]_vars

----------------------------------------------------------------------------
(* The editor: MDMain, MDSceneEditor, MDSceneList, MDImageObjectList and   *)
(* the property views, acting on the session.  An exception raised by a    *)
(* handler leaves the assignments made before it; its name is recorded in  *)
(* lastOp.arg.                                                             *)

idleSurface == <<animationList, finalImage, painted, requested, headTicks,
                 userActive>>

\* the editor's scene becomes newScene, in place
EditScene(newScene) ==
    /\ editorScene' = newScene
    /\ session' = IF editorIdx > 0
                  THEN [session EXCEPT !.scenes[editorIdx] = newScene]
                  ELSE session

\* MDSceneEditor.addtoScene(so) for an object so that is not None
addtoScene(so, opName) ==
    LET r == addSceneObject(editorScene, so)
    IN  IF r.ok
        THEN /\ EditScene(r.val)
             /\ lastOp' = Op(opName, "ok")
        ELSE /\ UNCHANGED <<session, editorScene>>
             /\ lastOp' = Op(opName, r.val)

\* MDImageObjectList.setImage: "Upload Image" with the picked path
imageListSetImage(path) ==
    /\ nextId <= MaxIds
    /\ Len(images) < MaxObjects
    /\ images' = Append(images,
                        New(SceneImage(path, path, 0, 0, 0 - 1, 0 - 1, FALSE),
                            nextId))
    /\ nextId' = nextId + 1
    /\ lastOp' = Op("setImage", path)
    /\ UNCHANGED <<session, editorScene, editorIdx, file>>
    /\ rendered' = NoRender
    /\ UNCHANGED <<idleSurface, tweenVars, objVars>>

\* MDMain.addImageToScene(index), index being the row of the image list
addImageToScene(index) ==
    /\ CountKeys(editorScene, 3) < MaxObjects
    /\ IF Len(images) > index - 1
       THEN addtoScene(images[index], "addImageToScene")
       ELSE /\ UNCHANGED <<session, editorScene>>
            /\ lastOp' = Op("addImageToScene", None)
    /\ UNCHANGED <<editorIdx, file, images, nextId>>
    /\ rendered' = NoRender
    /\ UNCHANGED <<idleSurface, tweenVars, objVars>>

\* MDSceneEditor.addSONoImage(type)
addSONoImage(type) ==
    /\ nextId <= MaxIds
    /\ CountKeys(editorScene, 3) < MaxObjects
    /\ addtoScene(New(IF type = 0
                      THEN SceneDarkness("darkness", 0, 0, 1, 1, FALSE)
                      ELSE SceneLightCircle("light", 0, 0, 6, 6, FALSE),
                      nextId),
                  "addSONoImage")
    /\ nextId' = nextId + 1
    /\ UNCHANGED <<editorIdx, file, images>>
    /\ rendered' = NoRender
    /\ UNCHANGED <<idleSurface, tweenVars, objVars>>

\* MDMain.addSceneToSession(sceneName)
addSceneToSession(sceneName) ==
    /\ Len(session.scenes) < MaxScenes
    /\ session' = [session EXCEPT
                     !.scenes = Append(@, MDScene(sceneName, NoSceneObjects))]
    /\ editorScene' = MDScene(sceneName, NoSceneObjects)
    /\ editorIdx' = Len(session.scenes) + 1
    /\ lastOp' = Op("addSceneToSession", sceneName)
    /\ UNCHANGED <<file, images, nextId>>
    /\ rendered' = NoRender
    /\ UNCHANGED <<idleSurface, tweenVars, objVars>>

\* MDMain.updateCurrentScene(index), index being a row of the scene list
updateCurrentScene(index) ==
    /\ index \in 1..Len(session.scenes)
    /\ editorScene' = session.scenes[index]
    /\ editorIdx' = index
    /\ lastOp' = Op("updateCurrentScene", None)
    /\ UNCHANGED <<session, file, images, nextId>>
    /\ rendered' = NoRender
    /\ UNCHANGED <<idleSurface, tweenVars, objVars>>

\* the object a property view shows: the p-th object under key of the
\* editor's scene
Shown(key, p) == editorScene.sceneObjects[key][p]

IsShown(key, p) ==
    /\ key \in DOMAIN editorScene.sceneObjects
    /\ p \in 1..Len(editorScene.sceneObjects[key])

\* a slot of the property view called a method that left its object in the
\* state so
Mutate(so, opName) ==
    /\ editorScene' = MutateScene(editorScene, so)
    /\ session' = MutateSession(session, so)
    /\ images' = MutateList(images, so)
    /\ lastOp' = Op(opName, None)
    /\ UNCHANGED <<editorIdx, file, nextId>>
    /\ rendered' = NoRender
    /\ UNCHANGED <<idleSurface, tweenVars, objVars>>

\* MDSceneObjectPropertyView.toggleHidden
viewToggleHidden(key, p) ==
    /\ IsShown(key, p)
    /\ Mutate(toggleHidden(Shown(key, p)), "toggleHidden")

\* MDMain.saveAsSession with the picked file name
saveAsSession(fp) ==
    /\ session' = [session EXCEPT !.name = fp]
    /\ editorScene' = editorScene
    /\ file' = Parsed(SessionGetJSON(session'))
    /\ lastOp' = Op("saveAsSession", fp)
    /\ UNCHANGED <<editorIdx, images, nextId>>
    /\ rendered' = NoRender
    /\ UNCHANGED <<idleSurface, tweenVars, objVars>>

\* MDMain.openSession with the content of the picked file
openSession(content, what) ==
    LET r == loadSessionFromFile(content)
    IN  /\ IF ~r.ok
           THEN /\ lastOp' = Op("openSession", r.val)
                /\ UNCHANGED <<session, editorScene, editorIdx, nextId>>
           ELSE IF r.none
           THEN /\ lastOp' = Op("openSession", None)
                /\ UNCHANGED <<session, editorScene, editorIdx, nextId>>
           ELSE /\ nextId + CountScenes(r.val.scenes, Len(r.val.scenes))
                     <= MaxIds + 1
                /\ session' = AssignIds(r.val, nextId)
                /\ nextId' = nextId
                             + CountScenes(r.val.scenes, Len(r.val.scenes))
                /\ IF Len(r.val.scenes) = 0
                   THEN /\ lastOp' = Op("openSession", "IndexError")
                        /\ editorScene' = editorScene
                        /\ editorIdx' = 0
                   ELSE /\ lastOp' = Op("openSession", what)
                        /\ editorScene' = session'.scenes[1]
                        /\ editorIdx' = 1
        /\ UNCHANGED <<file, images>>
        /\ rendered' = NoRender
        /\ UNCHANGED <<idleSurface, tweenVars, objVars>>

\* session files that are malformed or lack a field of the serialization:
\* unparsable text, no name and no scenes, no name, a scene without
\* sceneObjects, a scene without its darkness and light lists, an object
\* without x, an object without type and hidden
BadFiles ==
    << Unparsable,
       Parsed([version |-> 1]),
       Parsed([scenes |-> <<>>]),
       Parsed([name |-> "m", scenes |-> <<[name |-> "a"]>>]),
       Parsed([name |-> "m", scenes |->
                 <<[name |-> "a", sceneObjects |-> [images |-> <<>>]]>>]),
       Parsed([name |-> "m", scenes |->
                 <<[name |-> "a", sceneObjects |->
                      [images |-> <<>>, light |-> <<>>,
                       darkness |-> <<[type |-> "darkness", name |-> "d",
                                       y |-> 0, width |-> 1, height |-> 1,
                                       hidden |-> FALSE]>>]]>>]),
       Parsed([name |-> "m", scenes |->
                 <<[name |-> "a", sceneObjects |->
                      [images |-> <<>>, light |-> <<>>,
                       darkness |-> <<[type |-> "darkness", name |-> "d",
                                       x |-> 1, y |-> 2,
                                       width |-> 1, height |-> 3]>>]]>>]) >>

\* a session file whose list of scenes is empty
EmptyFile == Parsed([name |-> "m", scenes |-> <<>>])

\* a session file as saveAsSession writes it: an empty scene and a scene
\* with one image, two darkness rectangles and one light
GoodFile ==
    Parsed([name |-> "g", scenes |->
      <<[name |-> "empty", sceneObjects |-> NoSceneObjects],
        [name |-> "cave", sceneObjects |->
           [images |-> <<[type |-> "image", name |-> "a.png", x |-> 1,
                          y |-> 2, width |-> 72, height |-> 36,
                          hidden |-> FALSE, filepath |-> "a.png"]>>,
            darkness |-> <<[type |-> "darkness", name |-> "d1", x |-> 0,
                            y |-> 1, width |-> 2, height |-> 3,
                            hidden |-> FALSE],
                           [type |-> "darkness", name |-> "d2", x |-> 3,
                            y |-> 0, width |-> 1, height |-> 1,
                            hidden |-> TRUE]>>,
            light |-> <<[type |-> "light", name |-> "l", x |-> 4, y |-> 5,
                         dimRadius |-> 3, brightRadius |-> 5,
                         hidden |-> FALSE]>>]]>>])

\* the session is edited, saved once, and session files are opened
EditSession ==
    \/ \E type \in {0, 1} : addSONoImage(type)
    \/ \E index \in 1..Len(session.scenes) : updateCurrentScene(index)
    \/ \E key \in TypeKeys, p \in 1..MaxObjects : viewToggleHidden(key, p)

NextSession ==
    \/ /\ file = NoFile
       /\ EditSession
    \/ /\ file = NoFile
       /\ saveAsSession("s")
    \/ /\ file # NoFile
       /\ openSession(file, "saved")
    \/ /\ file = NoFile
       /\ openSession(GoodFile, "good")
    \/ \E n \in 1..Len(BadFiles) : openSession(BadFiles[n], "bad")
    \/ openSession(EmptyFile, "empty")

SpecSession == Init /\ [][NextSession]_vars

\* images are uploaded to the library and added to the scenes of a session
NextLibrary ==
    \/ \E path \in {"a.png"} : imageListSetImage(path)
    \/ \E index \in 1..Len(images) : addImageToScene(index)
    \/ \E type \in {0, 1} : addSONoImage(type)
    \/ addSceneToSession("New Scene")
    \/ \E index \in 1..Len(session.scenes) : updateCurrentScene(index)
    \/ \E key \in TypeKeys, p \in 1..MaxObjects : viewToggleHidden(key, p)

SpecLibrary == Init /\ [][NextLibrary]_vars

----------------------------------------------------------------------------
(* MDMain.generateSceneImage.  A canvas maps pixels to colours; of the     *)
(* 1920 x 1080 canvas the model keeps the pixels next to the grid lines of *)
(* the first MaxCell cells.  An image file is opaque, and the colour of a  *)
(* pixel it painted tells the file and the pixel of the file.              *)

Coords == {c * PPI + o : c \in 0..MaxCell, o \in {0, 1, PPI - 1}}
Pixels == Coords \X Coords

Transparent == [kind |-> "transparent", path |-> "", dx |-> 0, dy |-> 0]
Black == [kind |-> "black", path |-> "", dx |-> 0, dy |-> 0]
ImagePixel(path, dx, dy) ==
    [kind |-> "image", path |-> path, dx |-> dx, dy |-> dy]

\* fill(Qt.transparent)
Blank == [px \in Pixels |-> Transparent]

\* QPainter.drawPixmap(x, y, img): a null pixmap draws nothing
drawPixmap_Under(canvas, x, y, img) ==
    [px \in Pixels |->
        IF /\ ~img.null
           /\ canvas[px].kind = "transparent"
           /\ px[1] >= x /\ px[1] < x + img.width
           /\ px[2] >= y /\ px[2] < y + img.height
        THEN ImagePixel(img.path, px[1] - x, px[2] - y)
        ELSE canvas[px]]

drawPixmap(canvas, x, y, img) ==
    [px \in Pixels |->
        IF /\ ~img.null
           /\ px[1] >= x /\ px[1] < x + img.width
           /\ px[2] >= y /\ px[2] < y + img.height
        THEN ImagePixel(img.path, px[1] - x, px[2] - y)
        ELSE canvas[px]]

\* QPainter.drawRect(x, y, w, h) with a black brush and a black pen of
\* width 1: the fill covers w x h pixels and the outline one more column
\* and one more row
drawRect(canvas, x, y, w, h) ==
    [px \in Pixels |->
        IF /\ px[1] >= x /\ px[1] <= x + w
           /\ px[2] >= y /\ px[2] <= y + h
        THEN Black
        ELSE canvas[px]]

\* QPainter.drawImage(0, 0, img): source-over composition
drawImage(canvas, img) ==
    [px \in Pixels |->
        IF img[px].kind = "transparent" THEN canvas[px] ELSE img[px]]

\* the body of the loop over curSOS["images"]: r is the canvas so far, or
\* the exception an earlier object raised; so.getImage() raises when
\* self.image was never assigned
paintImage_DrawsHidden(r, so) ==
    IF ~r.ok THEN r
    ELSE IF ~so.image.attr THEN Raise("AttributeError")
    ELSE Ok(drawPixmap(r.val, so.x * PPI, so.y * PPI, so.image))

paintImage(r, so) ==
    IF ~r.ok \/ so.hidden THEN r
    ELSE IF ~so.image.attr THEN Raise("AttributeError")
    ELSE Ok(drawPixmap(r.val, so.x * PPI, so.y * PPI, so.image))

\* the loop over curSOS["images"], after its first n objects
RECURSIVE paintImages(_, _)
paintImages(list, n) ==
    IF n = 0 THEN Ok(Blank)
    ELSE paintImage(paintImages(list, n - 1), list[n])

\* the body of the loop over curSOS["darkness"]
paintFog(fog, so) ==
    IF so.hidden THEN fog
    ELSE drawRect(fog, so.x * PPI, so.y * PPI,
                  so.width * PPI, so.height * PPI)

\* the loop over curSOS["darkness"], after its first n objects
RECURSIVE paintDarkness(_, _)
paintDarkness(list, n) ==
    IF n = 0 THEN Blank
    ELSE paintFog(paintDarkness(list, n - 1), list[n])

generateSceneImage(cs) ==
    LET curSOS == cs.sceneObjects
    IN  IF "images" \notin DOMAIN curSOS THEN Raise("KeyError")
        ELSE LET sceneImg == paintImages(curSOS.images, Len(curSOS.images))
             IN  IF ~sceneImg.ok THEN sceneImg
                 ELSE IF ~{"darkness", "light"} \subseteq DOMAIN curSOS
                 THEN Raise("KeyError")
                 ELSE Ok(drawImage(sceneImg.val,
                                   paintDarkness(curSOS.darkness,
                                                 Len(curSOS.darkness))))

\* the call generateSceneImage(self.sceneEditor.getCurrentScene()) of
\* displayScene and transitionScene
callGenerateSceneImage_DropsHidden ==
    LET r == generateSceneImage(editorScene)
        kept == [editorScene EXCEPT !.sceneObjects =
                    [k \in DOMAIN @ |->
                        SelectSeq(@[k], LAMBDA so : ~so.hidden)]]
    IN  /\ rendered' = Render(r, rendered)
        /\ lastOp' = Op("generateSceneImage", IF r.ok THEN "ok" ELSE r.val)
        /\ EditScene(kept)
        /\ UNCHANGED <<editorIdx, file, images, nextId>>
        /\ UNCHANGED <<idleSurface, tweenVars, objVars>>

callGenerateSceneImage ==
    LET r == generateSceneImage(editorScene)
    IN  /\ rendered' = Render(r, rendered)
        /\ lastOp' = Op("generateSceneImage", IF r.ok THEN "ok" ELSE r.val)
        /\ UNCHANGED <<idleSurface, tweenVars, dataVars, objVars>>

\* the objects of the scenes that are rendered: images of a.png in two
\* cells, of the wider b.png, of a file that cannot be loaded and with an
\* empty filepath, darkness rectangles that overlap, and a light; each as
\* createFromJSON builds it
ImageInputs ==
    {SceneImage("a.png", "a.png", 0, 0, 72, 72, FALSE),
     SceneImage("a.png", "a.png", 1, 0, 72, 72, FALSE),
     SceneImage("b.png", "b.png", 0, 0, 72, 144, FALSE),
     SceneImage("gone.png", "gone.png", 0, 0, 72, 72, FALSE),
     SceneImage("none", "", 0, 0, 1, 1, FALSE)}
DarknessInputs ==
    {SceneDarkness("darkness", 0, 0, 1, 1, FALSE),
     SceneDarkness("darkness", 0, 0, 2, 2, FALSE)}
LightInputs == {SceneLightCircle("light", 0, 0, 6, 6, FALSE)}

SeqsUpTo(S, n) == UNION {[1..k -> S] : k \in 0..n}

\* the application after it opened a session file holding one scene
InitRender ==
    /\ animationList = <<>>
    /\ finalImage = None
    /\ painted = paintEvent(<<>>, None)
    /\ lastOp = Op("init", None)
    /\ requested = None
    /\ headTicks = 0
    /\ userActive = TRUE
    /\ tw = MDTween(0, 1, 1000)
    /\ elapsed = 0
    /\ lastDelta = 0
    /\ value = getCurrentValue(MDTween(0, 1, 1000))
    /\ ObjectInit
    /\ rendered = NoRender
    /\ file = NoFile
    /\ images = <<>>
    /\ editorIdx = 1
    /\ \E i \in SeqsUpTo(ImageInputs, MaxDrawn) :
       \E d \in SeqsUpTo(DarknessInputs, MaxDrawn - Len(i)) :
       \E l \in SeqsUpTo(LightInputs, MaxDrawn - Len(i) - Len(d)) :
          LET scene == MDScene("map",
                               [images |-> i, darkness |-> d, light |-> l])
              loaded == AssignIds(MDSession("r", <<scene>>), 1)
          IN  /\ session = loaded
              /\ editorScene = loaded.scenes[1]
              /\ nextId = 1 + CountKeys(scene, 3)

\* objects of the scene are hidden and shown, and the scene is rendered
NextRender ==
    \/ \E key \in TypeKeys, p \in 1..MaxDrawn : viewToggleHidden(key, p)
    \/ callGenerateSceneImage

SpecRender == InitRender /\ [][NextRender]_vars

----------------------------------------------------------------------------
(* A free-standing scene object under the calls of its class.  The editor  *)
(* offers setPos, toggleHidden, setWidth/setHeight (darkness) and          *)
(* setBrightRadius/setDimRadius (light); the other calls are the methods   *)
(* that MDSceneObject gives every object.                                  *)

Positions == {0, 2}
Sizes == {1, 5}
Radii == {0, 3, 5}
Names == {"light", "torch"}

\* a Python value of an attribute: the number n or the 1-tuple (n,)
Num(n) == [tuple |-> FALSE, n |-> n]
Tuple1(n) == [tuple |-> TRUE, n |-> n]
Attr(o, f) == IF f \in o.tupled THEN Tuple1(o.so[f]) ELSE Num(o.so[f])

\* MDSceneObject.getDimensions
getDimensions(o) ==
    <<Attr(o, "x"), Attr(o, "y"), Attr(o, "width"), Attr(o, "height")>>

\* MDSceneEditor.updateUI, the slot connected to objectUpdated: the object
\* list reads isHidden() and getName(), the preview reads getDimensions()
updateUI(o) ==
    [name |-> o.so.name, hidden |-> o.so.hidden, dims |-> getDimensions(o)]

\* a method is entered
Enter(o, opName, args) ==
    [o EXCEPT !.op = opName, !.args = args, !.seen = <<>>]

\* the assignments of a method: they leave the attributes so, of which
\* those in set were assigned numbers
Assign(o, so, set) == [o EXCEPT !.so = so, !.tupled = @ \ set]

\* variant: the signal has no slot connected
emit_Unconnected(o) == o

\* self.objectUpdated.emit(): the connection is direct, so the slot runs
\* before emit() returns
emit(o) == [o EXCEPT !.seen = Append(@, updateUI(o))]

\* a method that assigns and then emits
Call(o, so, set, opName, args) ==
    emit(Assign(Enter(o, opName, args), so, set))

\* MDSceneObject.setDimensions: `self.height = height,` stores a 1-tuple
setDimensions(o, x, y, width, height) ==
    emit([Enter(o, "setDimensions", <<x, y, width, height>>) EXCEPT
              !.so = [@ EXCEPT !.x = x, !.y = y,
                               !.height = height, !.width = width],
              !.tupled = (@ \ {"x", "y", "width"}) \cup {"height"}])

ObjectStep(o) ==
    /\ obj' = o
    /\ UNCHANGED <<surfaceVars, tweenVars, dataVars, renderVars>>

\* MDSceneObject.setName emits before it assigns
callSetName(name) ==
    ObjectStep(Assign(emit(Enter(obj, "setName", <<name>>)),
                      setName(obj.so, name), {"name"}))

callSetPos(x, y) ==
    ObjectStep(Call(obj, setPos(obj.so, x, y), {"x", "y"},
                    "setPos", <<x, y>>))

callToggleHidden ==
    ObjectStep(Call(obj, toggleHidden(obj.so), {"hidden"},
                    "toggleHidden", <<>>))

callSetHidden(hidden) ==
    ObjectStep(Call(obj, setHidden(obj.so, hidden), {"hidden"},
                    "setHidden", <<hidden>>))

callSetWidth(w) ==
    ObjectStep(Call(obj, setWidth(obj.so, w), {"width"}, "setWidth", <<w>>))

callSetHeight(h) ==
    ObjectStep(Call(obj, setHeight(obj.so, h), {"height"},
                    "setHeight", <<h>>))

callSetDimensions(x, y, w, h) ==
    ObjectStep(setDimensions(obj, x, y, w, h))

callSetBrightRadius(br) ==
    /\ obj.so.type = "light"
    /\ ObjectStep(Call(obj, setBrightRadius(obj.so, br),
                        {"brightRadius", "height", "width"},
                        "setBrightRadius", <<br>>))

callSetDimRadius(dr) ==
    /\ obj.so.type = "light"
    /\ ObjectStep(Call(obj, setDimRadius(obj.so, dr),
                        {"dimRadius", "height", "width"},
                        "setDimRadius", <<dr>>))

\* the objects addSONoImage constructs, and lights of other radii
InitObject ==
    /\ animationList = <<>>
    /\ finalImage = None
    /\ painted = paintEvent(<<>>, None)
    /\ lastOp = Op("init", None)
    /\ requested = None
    /\ headTicks = 0
    /\ userActive = TRUE
    /\ tw = MDTween(0, 1, 1000)
    /\ elapsed = 0
    /\ lastDelta = 0
    /\ value = getCurrentValue(MDTween(0, 1, 1000))
    /\ DataInit
    /\ \E so \in {SceneDarkness("darkness", 0, 0, 1, 1, FALSE)}
                 \cup {SceneLightCircle("light", 0, 0, br, dr, FALSE) :
                          br \in {3, 6}, dr \in {3, 6}} :
          obj = NewObject(so)

NextObject ==
    \/ \E name \in Names : callSetName(name)
    \/ \E x \in Positions, y \in Positions : callSetPos(x, y)
    \/ callToggleHidden
    \/ \E hidden \in BOOLEAN : callSetHidden(hidden)
    \/ \E w \in Sizes : callSetWidth(w)
    \/ \E h \in Sizes : callSetHeight(h)
    \/ \E x \in Positions, w \in Sizes, h \in Sizes :
          callSetDimensions(x, x, w, h)
    \/ \E br \in Radii : callSetBrightRadius(br)
    \/ \E dr \in Radii : callSetDimRadius(dr)

SpecObject == InitObject /\ [][NextObject]_vars

----------------------------------------------------------------------------
(* Properties of the timer tick *)

IsTick == lastOp'.op = "updateAnimation"
IsEnqueue == lastOp'.op \in {"hideScene", "updateScene", "transitionScene"}
HeadAnim == animationList[1]

C2_QueueIsFIFO ==
    [][\/ animationList' = animationList
       \/ /\ IsEnqueue
          /\ Len(animationList') \in {Len(animationList) + 1,
                                      Len(animationList) + 2}
          /\ SubSeq(animationList', 1, Len(animationList)) = animationList
       \/ /\ IsTick
          /\ animationList # <<>>
          /\ completed(HeadAnim.tween)
          /\ animationList' = Tail(animationList)
       \/ /\ IsTick
          /\ animationList # <<>>
          /\ ~completed(HeadAnim.tween)
          /\ Len(animationList') = Len(animationList)
          /\ Tail(animationList') = Tail(animationList)
          /\ animationList'[1].bkg = HeadAnim.bkg
          /\ animationList'[1].img = HeadAnim.img
          /\ animationList'[1].tween.timeRemaining < HeadAnim.tween.timeRemaining
      ]_vars

\* an enqueue call arrived while the head was mid-animation and others waited
C2_Witness ==
    /\ Len(animationList) = 3
    /\ lastOp.op \in {"hideScene", "updateScene"}
    /\ HeadAnim.tween.timeRemaining < HeadAnim.tween.time
    /\ ~completed(HeadAnim.tween)

\* C3: finalImage is the image of the most recent showScene / transitionScene
\* call, or none when the most recent enqueue call was hideScene or there was
\* none; a tick never changes finalImage.
C3_FinalImageIsLastRequest ==
    /\ [](finalImage = requested)
    /\ [][IsTick => finalImage' = finalImage]_vars

\* a tick dequeued an older transition to A while B is the intended image
C3_Witness ==
    /\ lastOp.op = "updateAnimation"
    /\ finalImage = "B"
    /\ Len(animationList) = 1
    /\ animationList[1].bkg = "A"
    /\ headTicks = 0

----------------------------------------------------------------------------
(* Properties of the enqueue calls and of the idle surface *)

\* a static draw of image fi (nothing when fi is none) over the background
Static(fi) == [bkg |-> None, img |-> fi, opacity |-> One]

\* t is a fresh 1000 ms tween running from a to b
IsFade(t, a, b) ==
    /\ t.startValue = a
    /\ t.endValue = b
    /\ t.time = 1000
    /\ t.timeRemaining = 1000
    /\ RatEq(getCurrentValue(t), Rat(a, 1))
    /\ RatEq(getCurrentValue(update(t, 1000)), Rat(b, 1))

\* the call appended exactly k entries and left the older ones as they were
Appended(k) ==
    /\ Len(animationList') = Len(animationList) + k
    /\ SubSeq(animationList', 1, Len(animationList)) = animationList

\* C4: once no further enqueue call comes and ticks keep firing, the queue
\* eventually becomes empty and stays empty; whenever the queue is empty the
\* last redraw shows exactly finalImage statically (nothing when it is none).
C4_DrainsToFinalImage ==
    /\ (~userActive) ~> (animationList = <<>>)
    /\ [](animationList = <<>> => painted = Static(finalImage))
    /\ [][(~userActive /\ animationList = <<>>) =>
            (animationList' = <<>> /\ finalImage' = finalImage)]_vars

\* the queue drained by ticks after the last call and the surface shows B
C4_Witness ==
    /\ ~userActive
    /\ animationList = <<>>
    /\ lastOp.op = "updateAnimation"
    /\ finalImage = "B"
    /\ painted = Static("B")

\* C5: showScene(image), image not none, appends exactly one transition whose
\* from-image is the finalImage held before the call, whose to-image is the
\* image and whose tween runs 0 to 1 over 1000 ms, and sets finalImage to the
\* image in the same step; the older entries are unchanged.
C5_ShowSceneAppendsFadeIn ==
    [][(lastOp'.op = "updateScene" /\ lastOp'.arg # None) =>
         /\ Appended(1)
         /\ LET a == animationList'[Len(animationList')]
            IN  /\ a.bkg = finalImage
                /\ a.img = lastOp'.arg
                /\ IsFade(a.tween, 0, 1)
         /\ finalImage' = lastOp'.arg]_vars

\* showScene(B) arrived while A was the final image and two entries waited
C5_Witness ==
    /\ lastOp = Op("updateScene", "B")
    /\ Len(animationList) = 3
    /\ animationList[3].bkg = "A"
    /\ animationList[3].img = "B"
    /\ HeadAnim.tween.timeRemaining < 1000

\* C6: transitionScene(image), image not none, appends exactly two
\* transitions: first a fade-out (1 to 0 over 1000 ms) of the finalImage held
\* before the call, then a fade-in (0 to 1 over 1000 ms) of the new image,
\* and sets finalImage to the new image in the same step; an entry that is
\* not the head has not started, so the fade-in starts only after the
\* fade-out has been dequeued.
C6_TransitionAppendsFadeOutFadeIn ==
    /\ [](\A i \in 2..Len(animationList) :
            animationList[i].tween.timeRemaining = animationList[i].tween.time)
    /\ [][(lastOp'.op = "transitionScene" /\ lastOp'.arg # None) =>
            /\ Appended(2)
            /\ LET n == Len(animationList')
                   out == animationList'[n - 1]
                   in == animationList'[n]
               IN  /\ out.img = finalImage
                   /\ IsFade(out.tween, 1, 0)
                   /\ in.img = lastOp'.arg
                   /\ IsFade(in.tween, 0, 1)
            /\ finalImage' = lastOp'.arg]_vars

\* transitionScene(B) arrived while a transition to A was mid-animation
C6_Witness ==
    /\ lastOp = Op("transitionScene", "B")
    /\ Len(animationList) = 3
    /\ animationList[2].img = "A"
    /\ animationList[3].img = "B"
    /\ HeadAnim.tween.timeRemaining < 1000
    /\ finalImage = "B"

\* C7: hideScene() appends exactly one fade-out (1 to 0 over 1000 ms) of the
\* finalImage held before the call and sets finalImage to none in the same
\* step, also when finalImage is already none or transitions are queued.
C7_HideSceneAppendsFadeOut ==
    [][(lastOp'.op = "hideScene") =>
         /\ Appended(1)
         /\ LET a == animationList'[Len(animationList')]
            IN  /\ a.img = finalImage
                /\ IsFade(a.tween, 1, 0)
         /\ finalImage' = None]_vars

\* hideScene() arrived while finalImage was already none and others waited
C7_Witness ==
    /\ lastOp.op = "hideScene"
    /\ Len(animationList) = 3
    /\ animationList[3].img = None
    /\ animationList[2].img # None
    /\ finalImage = None

----------------------------------------------------------------------------
(* Properties of MDTween *)

\* C8: a tween of duration 0 never fails; its current value, and the value
\* returned by every update, is endValue.
C8_ZeroDurationYieldsEndValue ==
    tw.time = 0 =>
        /\ RatEq(getCurrentValue(tw), Rat(tw.endValue, 1))
        /\ RatEq(value, Rat(tw.endValue, 1))

\* C9: for a duration > 0, after updates whose deltas sum to e the current
\* value is start + (end - start) * e / duration, unclamped; Tween(0,1,1000)
\* after 500 yields 1/2 and Tween(1,0,1000) after 1000 yields 0.
C9_LinearUnclamped ==
    tw.time > 0 =>
        LET expected == Rat(tw.startValue * tw.time
                              + (tw.endValue - tw.startValue) * elapsed,
                            tw.time)
        IN  /\ RatEq(getCurrentValue(tw), expected)
            /\ RatEq(value, expected)
            /\ (tw.startValue = 0 /\ tw.endValue = 1 /\ tw.time = 1000
                  /\ elapsed = 500) => RatEq(value, Rat(1, 2))
            /\ (tw.startValue = 1 /\ tw.endValue = 0 /\ tw.time = 1000
                  /\ elapsed = 1000) => RatEq(value, Rat(0, 1))

\* Tween(0, 1, 1000) driven past its duration: the value exceeds 1
C9_Witness ==
    /\ tw.startValue = 0
    /\ tw.endValue = 1
    /\ tw.time = 1000
    /\ elapsed = 1025
    /\ lastDelta = 25
    /\ RatEq(value, Rat(41, 40))

\* C10: completed() is true exactly when the remaining time is <= 0, that is
\* exactly when the deltas sum to at least the duration; once true it stays
\* true under updates with non-negative deltas.
C10_CompletedIffElapsed ==
    /\ [](tw.timeRemaining = tw.time - elapsed)
    /\ [](completed(tw) <=> elapsed >= tw.time)
    /\ [][(completed(tw) /\ lastDelta' >= 0) => completed(tw)']_vars

\* an update with a positive delta on a tween that was already completed
C10_Witness ==
    /\ tw.time > 0
    /\ lastDelta > 0
    /\ elapsed - lastDelta >= tw.time
    /\ completed(tw)

----------------------------------------------------------------------------
(* Properties of saving and opening sessions *)

\* the fields of an object that the serialization carries: everything but
\* its identity and the loaded image handle
ObjectFields(so) == [f \in DOMAIN so \ {"id", "image"} |-> so[f]]

SceneFields(scene) ==
    [name |-> scene.name,
     sceneObjects |->
        [k \in DOMAIN scene.sceneObjects |->
            [p \in 1..Len(scene.sceneObjects[k]) |->
                ObjectFields(scene.sceneObjects[k][p])]]]

SessionFields(s) ==
    [name |-> s.name,
     scenes |-> [i \in 1..Len(s.scenes) |-> SceneFields(s.scenes[i])]]

\* C11: createFromJSON(getJSON(session)) succeeds and equals the session
\* field for field (session name, order of scenes, scene names, order of the
\* objects under each key, and each object's name, x, y, width, height,
\* radii, filepath and hidden flag), for every session the application holds.
C11_RoundTrip ==
    LET r == SessionCreateFromJSON(SessionGetJSON(session))
    IN  /\ r.ok
        /\ SessionFields(r.val) = SessionFields(session)

\* C12: opening a file that is malformed or lacks a required field leaves
\* the application's session and the editor's current scene exactly as they
\* were before the open.
C12_BadOpenKeepsSession ==
    [][(/\ lastOp'.op = "openSession"
        /\ lastOp'.arg \in {None, "KeyError", "bad"})
       => (session' = session /\ editorScene' = editorScene)]_vars

\* C13: every session that is the application's session holds at least one
\* scene, so that getScene(0) succeeds.
C13_SessionHasScene == Len(session.scenes) >= 1

----------------------------------------------------------------------------
(* Properties of a light object *)

\* C14: for every light, after construction and after any sequence of calls
\* of setBrightRadius, setDimRadius, setWidth, setHeight, setDimensions,
\* setPos and toggleHidden, width and height are the number
\* 2 * (brightRadius + dimRadius).
C14_LightBoxFollowsRadii ==
    obj.so.type = "light" =>
        /\ obj.tupled \cap {"width", "height"} = {}
        /\ obj.so.width = 2 * (obj.so.brightRadius + obj.so.dimRadius)
        /\ obj.so.height = 2 * (obj.so.brightRadius + obj.so.dimRadius)

----------------------------------------------------------------------------
(* Properties of the queued tweens under the timer *)

\* C24: with the 25 ms tick and the 1000 ms tweens that showScene,
\* transitionScene and hideScene create, in every reachable state the head
\* tween's remaining time is between 0 and 1000, so a completed tween was
\* not advanced again; the tweens behind the head keep their full remaining
\* time; and the opacity of the last redraw lies in [0, 1].
C24_HeadTweenInRange ==
    /\ \A i \in 1..Len(animationList) :
          /\ animationList[i].tween.time = 1000
          /\ animationList[i].tween.timeRemaining >= 0
          /\ animationList[i].tween.timeRemaining <= 1000
    /\ \A i \in 2..Len(animationList) :
          animationList[i].tween.timeRemaining = animationList[i].tween.time
    /\ RatLeq(Rat(0, 1), painted.opacity)
    /\ RatLeq(painted.opacity, One)

\* a completed head with a tween waiting behind it, just redrawn by a tick
\* at the fade-in's full opacity
C24_Witness ==
    /\ Len(animationList) >= 2
    /\ completed(animationList[1].tween)
    /\ animationList[1].tween.timeRemaining = 0
    /\ animationList[1].tween.startValue = 0
    /\ lastOp.op = "updateAnimation"
    /\ RatEq(painted.opacity, One)

----------------------------------------------------------------------------
(* Properties of the change notifications and of the dimensions *)

Mutators ==
    {"setPos", "setWidth", "setHeight", "setDimensions", "toggleHidden",
     "setHidden", "setBrightRadius", "setDimRadius"}

\* C21: every call of setPos, setWidth, setHeight, setDimensions,
\* toggleHidden, setHidden, setBrightRadius or setDimRadius emits
\* objectUpdated at least once before it returns.
C21_MutatorsNotify == obj.op \in Mutators => Len(obj.seen) >= 1

\* each of the eight mutators can be the last call, and it notified
C21_Witness ==
    /\ obj.op = "setDimRadius"
    /\ obj.so.dimRadius = 5
    /\ Len(obj.seen) = 1

\* C22: whatever the slot read from the object at an emission of the last
\* call (name, hidden flag, dimensions) is what the object holds when the
\* call has returned, for every mutator including setName.
C22_ObserverSeesNewState ==
    \A i \in 1..Len(obj.seen) : obj.seen[i] = updateUI(obj)

\* C23: width and height are numbers in every reachable state, and after
\* setDimensions(x, y, width, height) getDimensions() is the tuple of the
\* four numbers passed, which is what setPos(x, y), setWidth(width) and
\* setHeight(height) leave.
C23_DimensionsAreNumbers ==
    /\ obj.tupled \cap {"width", "height"} = {}
    /\ obj.op = "setDimensions" =>
          /\ getDimensions(obj) =
                <<Num(obj.args[1]), Num(obj.args[2]),
                  Num(obj.args[3]), Num(obj.args[4])>>
          /\ getDimensions(obj) =
                getDimensions(
                    Assign(obj,
                           setHeight(setWidth(setPos(obj.so, obj.args[1],
                                                     obj.args[2]),
                                              obj.args[3]),
                                     obj.args[4]),
                           {"x", "y", "width", "height"}))

----------------------------------------------------------------------------
(* Properties of the image library *)

\* the identities of the objects a scene holds
SceneIds(scene) ==
    UNION {{scene.sceneObjects[k][p].id :
               p \in 1..Len(scene.sceneObjects[k])} :
           k \in DOMAIN scene.sceneObjects}

\* C15: after any sequence of editor operations (upload image, add image to
\* scene, add darkness/light object, add scene, select scene) no scene
\* object is held by two different scenes of the session.
C15_NoSharedObject ==
    \A i, j \in 1..Len(session.scenes) :
        i # j => SceneIds(session.scenes[i]) \cap SceneIds(session.scenes[j])
                    = {}

----------------------------------------------------------------------------
(* Properties of the flattened render *)

\* an image object has no image: its file could not be loaded, or its
\* filepath is empty
HasNoImage(so) == ~so.image.attr \/ so.image.null

\* the scene without its image objects that have no image
WithoutNoImage(scene) ==
    [scene EXCEPT !.sceneObjects.images =
        SelectSeq(@, LAMBDA so : ~HasNoImage(so))]

\* C16: rendering a scene that holds an image object with no image ends
\* without error, and gives the render of the scene without such objects.
C16_NoImageIsSkipped ==
    (/\ lastOp.op = "generateSceneImage"
     /\ \E p \in 1..Len(editorScene.sceneObjects.images) :
           HasNoImage(editorScene.sceneObjects.images[p]))
    => /\ rendered.ok
       /\ rendered.val
            = generateSceneImage(WithoutNoImage(editorScene)).val

\* the scene without its hidden objects and without its lights
VisibleUnlit(scene) ==
    [scene EXCEPT !.sceneObjects =
        [k \in DOMAIN @ |->
            IF k = "light" THEN <<>>
            ELSE SelectSeq(@[k], LAMBDA so : ~so.hidden)]]

\* C17: the render of a scene equals the render of the same scene with every
\* hidden object and every light removed.
C17_RenderIgnoresHiddenAndLights ==
    lastOp.op = "generateSceneImage"
    => Result(rendered) = generateSceneImage(VisibleUnlit(editorScene))

\* a render of a scene with a light, a hidden image of b.png and an image of
\* a.png that is drawn: the pixels b.png would cover next to a.png are empty
C17_Witness ==
    /\ lastOp.op = "generateSceneImage"
    /\ rendered.ok
    /\ Len(editorScene.sceneObjects.light) > 0
    /\ \E p, q \in 1..Len(editorScene.sceneObjects.images) :
          /\ editorScene.sceneObjects.images[p].hidden
          /\ editorScene.sceneObjects.images[p].filePath = "b.png"
          /\ ~editorScene.sceneObjects.images[q].hidden
          /\ editorScene.sceneObjects.images[q].filePath = "a.png"
          /\ editorScene.sceneObjects.images[q].x = 0
    /\ rendered.val[<<0, 0>>].kind = "image"
    /\ rendered.val[<<PPI, 0>>].kind = "transparent"

\* the pixel lies in the rectangle (x*PPI, y*PPI, width*PPI, height*PPI) of
\* a darkness object that is not hidden
InDarkness(scene, px) ==
    \E p \in 1..Len(scene.sceneObjects.darkness) :
        LET so == scene.sceneObjects.darkness[p]
        IN  /\ ~so.hidden
            /\ px[1] >= so.x * PPI /\ px[1] < so.x * PPI + so.width * PPI
            /\ px[2] >= so.y * PPI /\ px[2] < so.y * PPI + so.height * PPI

\* the canvas after the images were painted, before the fog
ImageLayer(scene) ==
    paintImages(scene.sceneObjects.images, Len(scene.sceneObjects.images))

\* C18: in the render, every pixel inside the rectangle of a darkness object
\* that is not hidden is opaque black, whatever lies beneath and however the
\* rectangles are ordered or overlap, and every other pixel shows the image
\* layer unchanged.
C18_FogIsUnionOfRectangles ==
    (lastOp.op = "generateSceneImage" /\ rendered.ok)
    => LET layer == ImageLayer(editorScene).val
       IN  \A px \in Pixels :
              rendered.val[px] = IF InDarkness(editorScene, px)
                                 THEN Black
                                 ELSE layer[px]

\* the image object paints the pixel: it is not hidden and its pixmap, drawn
\* at (x*PPI, y*PPI) in its native size, covers the pixel
Paints(so, px) ==
    /\ ~so.hidden
    /\ ~HasNoImage(so)
    /\ px[1] >= so.x * PPI /\ px[1] < so.x * PPI + so.image.width
    /\ px[2] >= so.y * PPI /\ px[2] < so.y * PPI + so.image.height

\* two image objects paint a common pixel of the canvas
Overlap(a, b) ==
    /\ ~a.hidden /\ ~HasNoImage(a)
    /\ ~b.hidden /\ ~HasNoImage(b)
    /\ a.x * PPI < b.x * PPI + b.image.width
    /\ b.x * PPI < a.x * PPI + a.image.width
    /\ a.y * PPI < b.y * PPI + b.image.height
    /\ b.y * PPI < a.y * PPI + a.image.height

\* the scene with its p-th image moved to position q > p of the sequence
MovedLater(scene, p, q) ==
    [scene EXCEPT !.sceneObjects.images =
        [i \in 1..Len(@) |-> IF i < p \/ i > q THEN @[i]
                             ELSE IF i = q THEN @[p]
                             ELSE @[i + 1]]]

\* C19: images are painted in the order of the sequence and the image drawn
\* last wins on every pixel several images paint; moving an image to a
\* later position of the sequence leaves the render unchanged unless the
\* image overlaps an image it was moved past.
C19_LastDrawnWins ==
    (lastOp.op = "generateSceneImage" /\ rendered.ok)
    => LET imgs == editorScene.sceneObjects.images
           layer == ImageLayer(editorScene).val
       IN  /\ \A px \in Pixels :
                LET on == {p \in 1..Len(imgs) : Paints(imgs[p], px)}
                    top == CHOOSE p \in on : \A q \in on : q <= p
                IN  layer[px]
                      = IF on = {} THEN Transparent
                        ELSE ImagePixel(imgs[top].filePath,
                                        px[1] - imgs[top].x * PPI,
                                        px[2] - imgs[top].y * PPI)
           /\ \A p, q \in 1..Len(imgs) :
                (/\ p < q
                 /\ \A i \in (p + 1)..q : ~Overlap(imgs[p], imgs[i]))
                => generateSceneImage(MovedLater(editorScene, p, q))
                     = Result(rendered)

\* a render of three images: the first can be moved past the second, which
\* it does not overlap, and the third is drawn over the first
C19_Witness ==
    /\ lastOp.op = "generateSceneImage"
    /\ rendered.ok
    /\ Len(editorScene.sceneObjects.images) = 3
    /\ LET imgs == editorScene.sceneObjects.images
       IN  /\ \A p \in 1..3 : ~imgs[p].hidden /\ ~HasNoImage(imgs[p])
           /\ ~Overlap(imgs[1], imgs[2])
           /\ Overlap(imgs[1], imgs[3])
           /\ imgs[1].filePath # imgs[3].filePath
           /\ Paints(imgs[1], <<0, 0>>)
           /\ rendered.val[<<0, 0>>].path = imgs[3].filePath

\* C20: a generateSceneImage call leaves the scene (its name, its three
\* sequences, every field of every object), the session, the image library
\* and the display surface's queue and finalImage unchanged, and a call that
\* follows another with no edit in between gives the same result.
C20_RenderChangesNothing ==
    [][lastOp'.op = "generateSceneImage"
       => /\ UNCHANGED <<session, editorScene, editorIdx, images, file>>
          /\ UNCHANGED <<animationList, finalImage, painted>>
          /\ rendered.calls > 0
             => /\ rendered'.ok = rendered.ok
                /\ rendered'.val = rendered.val]_vars

\* a second render, with no edit since the first, of a scene with an image
\* that is drawn, a darkness rectangle and a hidden object
C20_Witness ==
    /\ lastOp.op = "generateSceneImage"
    /\ rendered.calls = 2
    /\ rendered.ok
    /\ \E px \in Pixels : rendered.val[px].kind = "image"
    /\ \E px \in Pixels : rendered.val[px].kind = "black"
    /\ \E k \in TypeKeys, p \in 1..MaxDrawn :
          /\ p <= Len(editorScene.sceneObjects[k])
          /\ editorScene.sceneObjects[k][p].hidden

====
